---- MODULE Spec2Model ----
(***************************************************************************)
(* Portfolio tracker: the quote resolution / caching layer                 *)
(* (services/prices.js) and the portfolio routes that call it              *)
(* (routes/portfolio.js).                                                  *)
(*                                                                         *)
(* The repository holds three versions of services/prices.js:              *)
(*   "AV"   src/services/prices.js lines   1-104  Alpha Vantage, stdTTL 60 *)
(*   "YF"   src/services/prices.js lines 105-210  Yahoo, stdTTL 60,        *)
(*                                                rejects unknown types    *)
(*   "TTL"  src/unnamed/part_000                  Yahoo, 900 s / 60 s TTLs *)
(* The variable `variant` says which of them the running server loaded;    *)
(* it is chosen in Init and never changes.                                 *)
(*                                                                         *)
(* Specifications: Spec (add / view), SpecQuote and SpecDispatch (the      *)
(* quote endpoint), SpecConfig (the Alpha Vantage version with or without  *)
(* its key), SpecOwner (add / edit / delete / view by two users) and       *)
(* SpecConc (two enrichAssetsWithPrices calls interleaved at their awaits).*)
(*                                                                         *)
(* Time is in seconds.  JavaScript numbers are modelled by integers, a     *)
(* nullable value by a sequence of length 0 (null) or 1, and the quotient  *)
(* pnl / invested * 100 by an exact fraction in lowest terms.              *)
(***************************************************************************)
EXTENDS Integers, Sequences, FiniteSets, TLC

VARIABLES
  variant,    \* the version of services/prices.js the server loaded
  avKey,      \* ALPHA_VANTAGE_KEY is set
  cache,      \* the node-cache instance: key -> [v: quote, t: expiry time]
  now,        \* Date.now(), in seconds
  assets,     \* the Asset collection, in creation order
  creators,   \* creators[id]: the user whose request created holding id
  last,       \* the last request handled and its response
  nops,       \* requests and clock steps so far
  enrich,     \* the enrichAssetsWithPrices calls in progress
  inflight,   \* the upstream requests awaiting their response
  log,        \* the upstream requests answered so far, oldest first
  gate,       \* the last request the auth middleware has seen, and its outcome
  ui          \* the symbol search of the browser page (public/main.js)

\* The state of interleaved enrichment calls (SpecConc).
conc == <<enrich, inflight, log>>

vars == <<variant, avKey, cache, now, assets, creators, last, nops, conc, gate, ui>>

----------------------------------------------------------------------------
(* Bounds of the exploration *)

\* Requests and clock steps of one behaviour of the portfolio server.
MaxSteps == 4

\* Requests and clock steps of one behaviour of the quote endpoint.
MaxQuoteOps == 3

\* Quote requests and clock steps of one behaviour of SpecDispatch.
MaxDispatchOps == 2

\* Requests of one behaviour of the Alpha Vantage server (SpecConfig).
MaxConfigOps == 3

\* Requests of one behaviour of SpecOwner.
MaxOwnerOps == 4

\* Clock steps of one behaviour of the interleaved calls (SpecConc).
MaxConcTicks == 1

\* Middleware runs, handler runs and clock steps of one behaviour of SpecAuth.
MaxAuthOps == 4

\* Searches the page issues in one behaviour of SpecSearch.
MaxSearches == 3

----------------------------------------------------------------------------
(* Program constants *)

STOCK_TTL == 900

CRYPTO_TTL == 60

\* expiresIn: "7d", in seconds
TokenLife == 604800

stdTTL == 60

FIAT == "USD"

CRYPTO_MAP ==
  [s \in {"BTC", "ETH", "ADA", "BNB", "XRP", "DOGE", "SOL", "MATIC", "LTC"} |->
     CASE s = "BTC" -> "bitcoin"
       [] s = "ETH" -> "ethereum"
       [] s = "ADA" -> "cardano"
       [] s = "BNB" -> "binancecoin"
       [] s = "XRP" -> "ripple"
       [] s = "DOGE" -> "dogecoin"
       [] s = "SOL" -> "solana"
       [] s = "MATIC" -> "matic-network"
       [] s = "LTC" -> "litecoin"]

Variants == {"AV", "YF", "TTL"}

----------------------------------------------------------------------------
(* Values *)

Null == <<>>

Some(v) == <<v>>

\* String.prototype.toUpperCase on the strings the model uses.
ToUpperCase(s) ==
  CASE s = "crypto" -> "CRYPTO"
    [] s = "stock" -> "STOCK"
    [] s = "mutual_fund" -> "MUTUAL_FUND"
    [] s = "commodity" -> "COMMODITY"
    [] s = "bond" -> "BOND"
    [] s = "btc" -> "BTC"
    [] s = "foo" -> "FOO"
    [] s = "aapl" -> "AAPL"
    [] OTHER -> s

\* `${type}:${symbol}`.toUpperCase()
CacheKey(type, symbol) == ToUpperCase(type) \o ":" \o ToUpperCase(symbol)

----------------------------------------------------------------------------
(* node-cache: a store of key -> [v, t], t the expiry time.  A read at     *)
(* time t serves an entry while t <= its expiry and deletes it afterwards; *)
(* the library's periodic sweep removes only entries a read would no       *)
(* longer serve, so it is not a separate step here.                        *)

\* _check: an entry is expired when its t is before the current time.
Expired(e, t) == e.t < t

\* cache.get(key): the stored value, or none when absent or expired.
CacheGet(c, key, t) ==
  IF key \in DOMAIN c /\ ~Expired(c[key], t) THEN Some(c[key].v) ELSE Null

\* cache.get(key) deletes an entry it finds expired.
CacheAfterGet(c, key, t) ==
  IF key \in DOMAIN c /\ Expired(c[key], t)
    THEN [k \in DOMAIN c \ {key} |-> c[k]]
    ELSE c

\* cache.set(key, value, ttl)
CacheSet(c, key, value, ttl, t) ==
  [k \in DOMAIN c \cup {key} |-> IF k = key THEN [v |-> value, t |-> t + ttl] ELSE c[k]]

----------------------------------------------------------------------------
(* Upstream responses.  st = "err": the request failed (transport error or *)
(* non-2xx status); "nodata": a 2xx answer without a price field;          *)
(* "ok": a 2xx answer with the price (and, for Yahoo, currency) given.     *)

Responses ==
  { [st |-> "err", price |-> 0, cur |-> ""],
    [st |-> "nodata", price |-> 0, cur |-> ""],
    [st |-> "ok", price |-> 0, cur |-> ""],
    [st |-> "ok", price |-> -1, cur |-> ""],
    [st |-> "ok", price |-> 30000, cur |-> ""],
    [st |-> "ok", price |-> 10000, cur |-> "INR"] }

\* JavaScript truthiness of the price field of a response: !price
Falsy(resp) == resp.st = "nodata" \/ resp.price = 0

Fail(msg, net, adapter) ==
  [ok |-> FALSE, quote |-> Null, err |-> msg, net |-> net, adapter |-> adapter]

Ok(q, net, adapter) ==
  [ok |-> TRUE, quote |-> Some(q), err |-> "", net |-> net, adapter |-> adapter]

----------------------------------------------------------------------------
(* Provider adapters.  Each returns ok/quote or the message of the error   *)
(* it throws, with net = the number of outbound requests it issued.        *)

\* fetchYahooQuote: part_000 uppercases the symbol of the quote, the older
\* version returns it as given.  Every failure inside the try, the missing
\* price included, is rethrown with the provider prefix.
fetchYahooQuote(v, symbol, resp) ==
  IF resp.st = "err"
    THEN Fail("Yahoo Finance error: " \o "request failed", 1, "Yahoo Finance")
  ELSE IF Falsy(resp)
    THEN Fail("Yahoo Finance error: " \o "Price not found from Yahoo Finance", 1, "Yahoo Finance")
  ELSE Ok([symbol |-> IF v = "TTL" THEN ToUpperCase(symbol) ELSE symbol,
           price |-> resp.price,
           currency |-> IF resp.cur = "" THEN FIAT ELSE resp.cur,
           source |-> "Yahoo Finance"], 1, "Yahoo Finance")

\* fetchCoinGeckoPrice (the same in the three versions)
fetchCoinGeckoPrice(symbol, resp) ==
  IF ToUpperCase(symbol) \notin DOMAIN CRYPTO_MAP
    THEN Fail("Unsupported crypto symbol: " \o symbol, 0, "CoinGecko")
  ELSE IF resp.st = "err"
    THEN Fail("CoinGecko error 500", 1, "CoinGecko")
  ELSE IF Falsy(resp)
    THEN Fail("Price not found from CoinGecko", 1, "CoinGecko")
  ELSE Ok([symbol |-> ToUpperCase(symbol),
           price |-> resp.price,
           currency |-> FIAT,
           source |-> "CoinGecko"], 1, "CoinGecko")

\* Mutant of fetchAlphaVantageQuote: the request goes out without the check
\* of the key.
fetchAlphaVantageNoKeyCheck(k, symbol, resp) ==
  IF resp.st = "err"
    THEN Fail("Alpha Vantage error 500", 1, "Alpha Vantage")
  ELSE IF Falsy(resp)
    THEN Fail("Price not found from Alpha Vantage", 1, "Alpha Vantage")
  ELSE Ok([symbol |-> symbol,
           price |-> resp.price,
           currency |-> FIAT,
           source |-> "Alpha Vantage"], 1, "Alpha Vantage")

\* fetchAlphaVantageQuote; k: ALPHA_VANTAGE_KEY is set in the environment
fetchAlphaVantageQuote(k, symbol, resp) ==
  IF ~k
    THEN Fail("Missing ALPHA_VANTAGE_KEY", 0, "Alpha Vantage")
  ELSE IF resp.st = "err"
    THEN Fail("Alpha Vantage error 500", 1, "Alpha Vantage")
  ELSE IF Falsy(resp)
    THEN Fail("Price not found from Alpha Vantage", 1, "Alpha Vantage")
  ELSE Ok([symbol |-> symbol,
           price |-> resp.price,
           currency |-> FIAT,
           source |-> "Alpha Vantage"], 1, "Alpha Vantage")

----------------------------------------------------------------------------
(* getQuote *)

YahooTypes == {"stock", "mutual_fund", "commodity"}

\* Mutant of Dispatch: only "stock" goes to the equity adapter.
DispatchStockOnly(v, k, type, symbol, resp) ==
  IF type # "stock" THEN fetchCoinGeckoPrice(symbol, resp)
  ELSE IF v = "AV" THEN fetchAlphaVantageQuote(k, symbol, resp)
  ELSE fetchYahooQuote(v, symbol, resp)

\* The if / else (if) chain of getQuote that picks the adapter.
Dispatch(v, k, type, symbol, resp) ==
  IF type = "crypto" THEN fetchCoinGeckoPrice(symbol, resp)
  ELSE IF v = "AV" THEN fetchAlphaVantageQuote(k, symbol, resp)
  ELSE IF v = "TTL" THEN fetchYahooQuote(v, symbol, resp)
  ELSE IF type \in YahooTypes THEN fetchYahooQuote(v, symbol, resp)
  ELSE Fail("Unsupported asset type: " \o type, 0, "none")

\* The ttl of the cache.set that follows the adapter call.
SetTTL(v, type) ==
  IF v = "TTL" THEN (IF type = "crypto" THEN CRYPTO_TTL ELSE STOCK_TTL) ELSE stdTTL

\* Mutant of getQuote: the early return on a cached quote is missing.
getQuoteSkipsCache(v, k, c, t, type, symbol, resp) ==
  LET key == CacheKey(type, symbol)
      c1 == CacheAfterGet(c, key, t)
      r == Dispatch(v, k, type, symbol, resp)
  IN [type |-> type, symbol |-> symbol, key |-> key, at |-> t,
      before |-> IF key \in DOMAIN c THEN Some(c[key]) ELSE Null,
      cin |-> c, hit |-> FALSE, ok |-> r.ok, quote |-> r.quote, err |-> r.err,
      net |-> r.net, adapter |-> r.adapter,
      cout |-> IF r.ok
                 THEN CacheSet(c1, key, r.quote[1], SetTTL(v, type), t)
                 ELSE c1]

\* Mutant of getQuote: the cache.set is reached on failure too and stores
\* a priceless quote.
getQuoteCachesFailure(v, k, c, t, type, symbol, resp) ==
  LET key == CacheKey(type, symbol)
      cached == CacheGet(c, key, t)
      c1 == CacheAfterGet(c, key, t)
      r == Dispatch(v, k, type, symbol, resp)
      stored == IF r.ok THEN r.quote[1]
                ELSE [symbol |-> symbol, price |-> 0, currency |-> FIAT, source |-> r.adapter]
      base == [type |-> type, symbol |-> symbol, key |-> key, at |-> t,
               before |-> IF key \in DOMAIN c THEN Some(c[key]) ELSE Null,
               cin |-> c]
  IN IF cached # Null
       THEN base @@ [hit |-> TRUE, ok |-> TRUE, quote |-> cached, err |-> "",
                     net |-> 0, adapter |-> "none", cout |-> c1]
       ELSE base @@ [hit |-> FALSE, ok |-> r.ok, quote |-> r.quote, err |-> r.err,
                     net |-> r.net, adapter |-> r.adapter,
                     cout |-> CacheSet(c1, key, stored, SetTTL(v, type), t)]

\* One execution of getQuote({symbol, type}) at time t on cache c, the
\* upstream answering resp if asked.  cin/cout: the cache before and after;
\* before: the stored entry of the key when the call starts (none: Null).
getQuote(v, k, c, t, type, symbol, resp) ==
  LET key == CacheKey(type, symbol)
      cached == CacheGet(c, key, t)
      c1 == CacheAfterGet(c, key, t)
      r == Dispatch(v, k, type, symbol, resp)
      base == [type |-> type, symbol |-> symbol, key |-> key, at |-> t,
               before |-> IF key \in DOMAIN c THEN Some(c[key]) ELSE Null,
               cin |-> c]
  IN IF cached # Null
       THEN base @@ [hit |-> TRUE, ok |-> TRUE, quote |-> cached, err |-> "",
                     net |-> 0, adapter |-> "none", cout |-> c1]
       ELSE base @@ [hit |-> FALSE, ok |-> r.ok, quote |-> r.quote, err |-> r.err,
                     net |-> r.net, adapter |-> r.adapter,
                     cout |-> IF r.ok
                                THEN CacheSet(c1, key, r.quote[1], SetTTL(v, type), t)
                                ELSE c1]

----------------------------------------------------------------------------
(* enrichAssetsWithPrices *)

Abs(x) == IF x < 0 THEN -x ELSE x

RECURSIVE GCD(_, _)
GCD(a, b) == IF b = 0 THEN a ELSE GCD(b, a % b)

\* The number n / d (d > 0), in lowest terms.
Frac(n, d) == LET g == GCD(Abs(n), d) IN <<n \div g, d \div g>>

\* Mutant of Pct: the division without its guard (x / 0 is Infinity).
PctUnguarded(pnl, invested) ==
  IF invested # 0 THEN Frac(pnl * 100, invested) ELSE <<1, 0>>

\* invested > 0 ? (pnl / invested) * 100 : 0
Pct(pnl, invested) == IF invested > 0 THEN Frac(pnl * 100, invested) ELSE <<0, 1>>

\* Mutant of Valued: the difference taken the wrong way round.
ValuedPnlReversed(a, quote) ==
  LET currentValue == quote.price * a.quantity
      invested == a.buyPrice * a.quantity
      pnl == invested - currentValue
  IN a @@ [currentPrice |-> Some(quote.price), currency |-> quote.currency,
           currentValue |-> Some(currentValue), invested |-> invested,
           pnl |-> Some(pnl), pnlPct |-> Some(Pct(pnl, invested))]

\* The record pushed by the try branch.
Valued(a, quote) ==
  LET currentValue == quote.price * a.quantity
      invested == a.buyPrice * a.quantity
      pnl == currentValue - invested
  IN a @@ [currentPrice |-> Some(quote.price), currency |-> quote.currency,
           currentValue |-> Some(currentValue), invested |-> invested,
           pnl |-> Some(pnl), pnlPct |-> Some(Pct(pnl, invested))]

\* The record pushed by the catch branch.
Failed(a, message) ==
  a @@ [currentPrice |-> Null, error |-> message, currency |-> FIAT,
        currentValue |-> Null, invested |-> a.buyPrice * a.quantity,
        pnl |-> Null, pnlPct |-> Null]

\* Mutant of EnrichStep: the loop body without its try/catch, a failure of
\* getQuote leaves the function.
EnrichStepNoCatch(v, k, t, acc, a, resp) ==
  LET call == getQuote(v, k, acc.cache, t, a.type, a.symbol, resp)
  IN IF call.ok
       THEN [results |-> Append(acc.results, Valued(a, call.quote[1])),
             cache |-> call.cout,
             calls |-> Append(acc.calls, call),
             threw |-> acc.threw]
       ELSE [results |-> acc.results,
             cache |-> call.cout,
             calls |-> Append(acc.calls, call),
             threw |-> TRUE]

\* Mutant of EnrichStep: unshift instead of push.
EnrichStepUnshift(v, k, t, acc, a, resp) ==
  LET call == getQuote(v, k, acc.cache, t, a.type, a.symbol, resp)
  IN [results |-> <<IF call.ok THEN Valued(a, call.quote[1]) ELSE Failed(a, call.err)>>
                    \o acc.results,
      cache |-> call.cout,
      calls |-> Append(acc.calls, call),
      threw |-> acc.threw]

\* One iteration of the for loop: holding a, upstream answer resp.
EnrichStep(v, k, t, acc, a, resp) ==
  LET call == getQuote(v, k, acc.cache, t, a.type, a.symbol, resp)
  IN [results |-> Append(acc.results,
                         IF call.ok THEN Valued(a, call.quote[1]) ELSE Failed(a, call.err)),
      cache |-> call.cout,
      calls |-> Append(acc.calls, call),
      threw |-> acc.threw]

RECURSIVE EnrichFrom(_, _, _, _, _, _, _)
EnrichFrom(v, k, t, list, resps, i, acc) ==
  IF i > Len(list) \/ acc.threw THEN acc
  ELSE EnrichFrom(v, k, t, list, resps, i + 1, EnrichStep(v, k, t, acc, list[i], resps[i]))

\* enrichAssetsWithPrices(assets): results, the cache it leaves, the getQuote
\* calls it made, and whether an exception left the function (the try/catch
\* of the loop body catches every failure of getQuote, so none does; an
\* exception that left an iteration would end the loop).
enrichAssetsWithPrices(v, k, c, t, list, resps) ==
  EnrichFrom(v, k, t, list, resps, 1,
             [results |-> <<>>, cache |-> c, calls |-> <<>>, threw |-> FALSE])

----------------------------------------------------------------------------
(* The holdings store and the requests of routes/portfolio.js.             *)
(* assets: the Asset collection in creation order.                         *)

Users == {"u1", "u2"}

HoldingTypes == {"stock", "mutual_fund", "crypto", "commodity"}

BodyA == [symbol |-> "btc", type |-> "crypto", quantity |-> 2, buyPrice |-> 20000]

BodyB == [symbol |-> "FOO", type |-> "crypto", quantity |-> 1, buyPrice |-> 500]

BodyC == [symbol |-> "AAPL", type |-> "stock", quantity |-> 3, buyPrice |-> 0]

BodyBad == [symbol |-> "AAPL", type |-> "stock", quantity |-> 0, buyPrice |-> 100]

\* The POST /add requests explored: the authenticated user and the body.
AddRequests ==
  { [user |-> "u1", body |-> b] : b \in {BodyA, BodyB, BodyC, BodyBad} }
    \cup { [user |-> "u2", body |-> BodyA] }

\* AddSchema.parse accepts the body.
AddSchemaOk(b) ==
  /\ b.symbol # ""
  /\ b.type \in HoldingTypes
  /\ b.quantity > 0
  /\ b.buyPrice >= 0

\* Asset.create: the schema uppercases the symbol.
NewAsset(id, user, b) ==
  [id |-> id, userId |-> user, symbol |-> ToUpperCase(b.symbol), type |-> b.type,
   quantity |-> b.quantity, buyPrice |-> b.buyPrice]

RECURSIVE Reverse(_)
Reverse(s) == IF s = <<>> THEN <<>> ELSE Append(Reverse(Tail(s)), Head(s))

\* Asset.find({ userId }).sort({ createdAt: -1 })
FindByUser(store, user) ==
  Reverse(SelectSeq(store, LAMBDA a : a.userId = user))

\* a.invested || 0, a.currentValue || 0
OrZero(x) == IF x = Null THEN 0 ELSE x[1]

\* Mutant of Totals: a failed holding adds nothing to invested either.
RECURSIVE TotalsSkipFailed(_, _)
TotalsSkipFailed(enriched, i) ==
  IF i > Len(enriched) THEN [invested |-> 0, currentValue |-> 0]
  ELSE LET rest == TotalsSkipFailed(enriched, i + 1)
       IN IF "error" \in DOMAIN enriched[i]
            THEN rest
            ELSE [invested |-> enriched[i].invested + rest.invested,
                  currentValue |-> OrZero(enriched[i].currentValue) + rest.currentValue]

RECURSIVE Totals(_, _)
Totals(enriched, i) ==
  IF i > Len(enriched) THEN [invested |-> 0, currentValue |-> 0]
  ELSE LET rest == Totals(enriched, i + 1)
       IN [invested |-> enriched[i].invested + rest.invested,
           currentValue |-> OrZero(enriched[i].currentValue) + rest.currentValue]

\* Mutant of Summary: the percentage taken against the current value.
SummaryPctOfValue(enriched) ==
  LET totals == Totals(enriched, 1)
      net == totals.currentValue - totals.invested
  IN [totalInvested |-> totals.invested,
      totalCurrentValue |-> totals.currentValue,
      netPnL |-> net,
      netPnLPct |-> Pct(net, totals.currentValue)]

\* The summary object of the portfolio response.
Summary(enriched) ==
  LET totals == Totals(enriched, 1)
      net == totals.currentValue - totals.invested
  IN [totalInvested |-> totals.invested,
      totalCurrentValue |-> totals.currentValue,
      netPnL |-> net,
      netPnLPct |-> Pct(net, totals.invested)]

\* Mutant of ViewStatus: a holding that failed fails the request.
ViewStatusStrict(e) ==
  IF e.threw \/ (\E i \in 1..Len(e.results) : "error" \in DOMAIN e.results[i])
    THEN 500 ELSE 200

\* The status the portfolio handler answers once the store was read: 200
\* with the body, or 500 from its catch when enrichment threw.
ViewStatus(e) == IF e.threw THEN 500 ELSE 200

NoRequest == [op |-> "none", status |-> 0, calls |-> <<>>]

\* POST /add by the authenticated user req.user
AddAsset(req, dbOk) ==
  /\ nops < MaxSteps
  /\ nops' = nops + 1
  /\ IF ~AddSchemaOk(req.body)
       THEN /\ last' = [op |-> "add", user |-> req.user, status |-> 400, calls |-> <<>>]
            /\ UNCHANGED <<assets, creators>>
       ELSE IF ~dbOk
       THEN /\ last' = [op |-> "add", user |-> req.user, status |-> 500, calls |-> <<>>]
            /\ UNCHANGED <<assets, creators>>
       ELSE /\ assets' = Append(assets, NewAsset(Len(creators) + 1, req.user, req.body))
            /\ creators' = Append(creators, req.user)
            /\ last' = [op |-> "add", user |-> req.user, status |-> 201, calls |-> <<>>]
  /\ UNCHANGED <<variant, avKey, cache, now, conc, gate, ui>>

\* GET /:userId by the authenticated user me
GetPortfolio(me, uid, dbOk, resps) ==
  /\ nops < MaxSteps
  /\ nops' = nops + 1
  /\ IF uid # me
       THEN /\ last' = [op |-> "view", user |-> me, uid |-> uid, status |-> 403,
                        dbOk |-> dbOk, calls |-> <<>>]
            /\ UNCHANGED cache
       ELSE IF ~dbOk
       THEN /\ last' = [op |-> "view", user |-> me, uid |-> uid, status |-> 500,
                        dbOk |-> dbOk, calls |-> <<>>]
            /\ UNCHANGED cache
       ELSE LET list == FindByUser(assets, me)
                e == enrichAssetsWithPrices(variant, avKey, cache, now, list, resps)
            IN /\ cache' = e.cache
               /\ last' = [op |-> "view", user |-> me, uid |-> uid,
                           status |-> ViewStatus(e),
                           dbOk |-> dbOk,
                           list |-> list,
                           threw |-> e.threw,
                           body |-> [currency |-> "USD", assets |-> e.results,
                                     summary |-> Summary(e.results)],
                           calls |-> e.calls]
  /\ UNCHANGED <<variant, avKey, now, assets, creators, conc, gate, ui>>

\* The keys EditSchema declares; z.object drops every other key of the body.
EditFields == {"symbol", "type", "quantity", "buyPrice"}

\* The PUT /:id bodies explored: a new quantity, a new buy price together
\* with an owner, and a quantity the schema rejects.  None changes the symbol.
EditQuantity == [quantity |-> 5]

EditTakeOver == [buyPrice |-> 1, userId |-> "u2"]

EditBad == [quantity |-> 0]

EditBodies == {EditQuantity, EditTakeOver, EditBad}

\* EditSchema.parse accepts the body: every declared key is optional.
EditSchemaOk(b) ==
  /\ "symbol" \in DOMAIN b => b.symbol # ""
  /\ "type" \in DOMAIN b => b.type \in HoldingTypes
  /\ "quantity" \in DOMAIN b => b.quantity > 0
  /\ "buyPrice" \in DOMAIN b => b.buyPrice >= 0

\* updates = EditSchema.parse(req.body)
EditSchemaParse(b) == [f \in DOMAIN b \cap EditFields |-> b[f]]

\* Mutant of Matches: the filter without its userId.
MatchesAnyOwner(a, id, user) == a.id = id

\* The filter { _id: req.params.id, userId: req.user.id }
Matches(a, id, user) == a.id = id /\ a.userId = user

\* { $set: updates }
ApplyUpdates(a, updates) ==
  [f \in DOMAIN a |-> IF f \in DOMAIN updates THEN updates[f] ELSE a[f]]

\* PUT /:id by the authenticated user me; ~dbOk: the query threw (the id is
\* not an ObjectId, or the store failed).
EditAsset(me, id, body, dbOk) ==
  /\ nops < MaxOwnerOps
  /\ nops' = nops + 1
  /\ LET found == { i \in 1..Len(assets) : Matches(assets[i], id, me) }
         status == IF ~EditSchemaOk(body) THEN 400
                   ELSE IF ~dbOk THEN 500
                   ELSE IF found = {} THEN 404
                   ELSE 200
     IN /\ assets' = IF status = 200
                       THEN [i \in 1..Len(assets) |->
                               IF i \in found
                                 THEN ApplyUpdates(assets[i], EditSchemaParse(body))
                                 ELSE assets[i]]
                       ELSE assets
        /\ last' = [op |-> "edit", user |-> me, id |-> id, status |-> status,
                    before |-> assets, calls |-> <<>>]
  /\ UNCHANGED <<variant, avKey, cache, now, creators, conc, gate, ui>>

\* DELETE /:id by the authenticated user me
DeleteAsset(me, id, dbOk) ==
  /\ nops < MaxOwnerOps
  /\ nops' = nops + 1
  /\ LET found == { i \in 1..Len(assets) : Matches(assets[i], id, me) }
         status == IF ~dbOk THEN 500
                   ELSE IF found = {} THEN 404
                   ELSE 200
     IN /\ assets' = IF status = 200
                       THEN SelectSeq(assets, LAMBDA a : ~Matches(a, id, me))
                       ELSE assets
        /\ last' = [op |-> "delete", user |-> me, id |-> id, status |-> status,
                    before |-> assets, calls |-> <<>>]
  /\ UNCHANGED <<variant, avKey, cache, now, creators, conc, gate, ui>>

QuoteTypes == {"crypto", "stock", "bond", "CRYPTO"}

QuoteSymbols == {"BTC", "btc", "FOO"}

\* Mutant of QuoteResponse: the failure answered as a 200 whose body is an
\* error record, the way a batch isolates it.
QuoteResponseIsolated(call) ==
  IF call.ok
    THEN [status |-> 200, body |-> [quote |-> call.quote[1]]]
    ELSE [status |-> 200, body |-> [error |-> call.err]]

\* What the quote handler answers: res.json(quote), or from its catch
\* res.status(500).json({ error: err.message || "Failed to fetch quote" }).
QuoteResponse(call) ==
  IF call.ok
    THEN [status |-> 200, body |-> [quote |-> call.quote[1]]]
    ELSE [status |-> 500,
          body |-> [error |-> IF call.err = "" THEN "Failed to fetch quote"
                                               ELSE call.err]]

\* GET /quote/:type/:symbol
GetQuoteEndpoint(type, symbol, resp) ==
  /\ nops < MaxQuoteOps
  /\ nops' = nops + 1
  /\ LET call == getQuote(variant, avKey, cache, now, type, symbol, resp)
     IN /\ cache' = call.cout
        /\ last' = [op |-> "quote", status |-> QuoteResponse(call).status,
                    body |-> QuoteResponse(call).body,
                    calls |-> <<call>>]
  /\ UNCHANGED <<variant, avKey, now, assets, creators, conc, gate, ui>>

TickSteps == {1, 60, 900}

\* The upstream answers and clock steps explored around portfolio views.
ViewResponses == { r \in Responses : r.st # "nodata" /\ r.price >= 0 }

ViewTickSteps == {61}

\* Time passes.
Tick(limit, d) ==
  /\ nops < limit
  /\ nops' = nops + 1
  /\ now' = now + d
  /\ UNCHANGED <<variant, avKey, cache, assets, creators, last, conc, gate, ui>>

\* The enrichAssetsWithPrices calls that may run interleaved.
EnrichCalls == {"e1", "e2"}

\* An enrichAssetsWithPrices call that has not been made.
IdleCall ==
  [pc |-> "idle", list |-> <<>>, results |-> <<>>, started |-> 0, pending |-> Null]

\* No request has reached the auth middleware.
NoGate == [state |-> "none"]

\* The page after load: no timer, the suggestion list hidden and empty.
PageLoaded ==
  [timer |-> Null, hidden |-> TRUE, shown |-> Null, fetches |-> {}, issued |-> 0]

Init ==
  /\ variant \in Variants
  /\ avKey \in (IF variant = "AV" THEN BOOLEAN ELSE {FALSE})
  /\ cache = <<>>
  /\ now = 0
  /\ assets = <<>>
  /\ creators = <<>>
  /\ last = NoRequest
  /\ nops = 0
  /\ enrich = [c \in EnrichCalls |-> IdleCall]
  /\ inflight = {}
  /\ log = <<>>
  /\ gate = NoGate
  /\ ui = PageLoaded

\* The portfolio server: holdings are added and portfolios viewed.
Next ==
  \/ \E req \in AddRequests, dbOk \in BOOLEAN : AddAsset(req, dbOk)
  \/ \E me \in Users : \E uid \in Users \ {me} : GetPortfolio(me, uid, TRUE, <<>>)
  \/ \E me \in Users : GetPortfolio(me, me, FALSE, <<>>)
  \/ \E me \in Users :
       \E resps \in [1..Len(FindByUser(assets, me)) -> ViewResponses] :
         GetPortfolio(me, me, TRUE, resps)
  \/ \E d \in ViewTickSteps : Tick(MaxSteps, d)

Spec == Init /\ [][Next]_vars

\* The quote endpoint alone, with arbitrary type and symbol strings.
NextQuote ==
  \/ \E type \in QuoteTypes, symbol \in QuoteSymbols, resp \in Responses :
       GetQuoteEndpoint(type, symbol, resp)
  \/ \E d \in TickSteps : Tick(MaxQuoteOps, d)

SpecQuote == Init /\ [][NextQuote]_vars

DispatchTypes == HoldingTypes \cup {"bond"}

\* getQuote over every recognized class (and one that is not), through the
\* quote endpoint.
NextDispatch ==
  \/ \E type \in DispatchTypes, symbol \in QuoteSymbols, resp \in Responses :
       nops < MaxDispatchOps /\ GetQuoteEndpoint(type, symbol, resp)
  \/ \E d \in TickSteps : Tick(MaxDispatchOps, d)

SpecDispatch == Init /\ [][NextDispatch]_vars

\* The upstream answers explored by the Alpha Vantage version's server.
ConfigResponses == { r \in Responses : r.st = "err" \/ r.price = 30000 }

\* The server of the Alpha Vantage version (prices.js:1-104), started with
\* or without ALPHA_VANTAGE_KEY in its environment.
InitAV == Init /\ variant = "AV"

\* One user adds a crypto and a stock holding, views the portfolio and asks
\* for single quotes.
NextConfig ==
  \/ \E b \in {BodyA, BodyC} :
       nops < MaxConfigOps /\ AddAsset([user |-> "u1", body |-> b], TRUE)
  \/ \E resps \in [1..Len(FindByUser(assets, "u1")) -> ConfigResponses] :
       nops < MaxConfigOps /\ GetPortfolio("u1", "u1", TRUE, resps)
  \/ \E type \in {"crypto", "stock"}, resp \in ConfigResponses :
       nops < MaxConfigOps /\ GetQuoteEndpoint(type, "BTC", resp)

SpecConfig == InitAV /\ [][NextConfig]_vars

\* A POST /add body that names an owner.
BodyForged == BodyC @@ [userId |-> "u2"]

OwnerAdds ==
  { [user |-> "u1", body |-> BodyA], [user |-> "u1", body |-> BodyForged],
    [user |-> "u2", body |-> BodyA] }

\* Two users add, edit, delete and view holdings; every id ever given out is
\* tried by both.
NextOwner ==
  \/ \E req \in OwnerAdds : nops < MaxOwnerOps /\ AddAsset(req, TRUE)
  \/ \E me \in Users, id \in 1..Len(creators), body \in EditBodies :
       EditAsset(me, id, body, TRUE)
  \/ \E me \in Users, id \in 1..Len(creators) : EditAsset(me, id, EditQuantity, FALSE)
  \/ \E me \in Users, id \in 1..Len(creators), dbOk \in BOOLEAN :
       DeleteAsset(me, id, dbOk)
  \/ \E me \in Users : \E uid \in Users \ {me} :
       nops < MaxOwnerOps /\ GetPortfolio(me, uid, TRUE, <<>>)
  \/ \E me \in Users :
       \E resps \in [1..Len(FindByUser(assets, me)) -> {r \in Responses : r.st = "err"}] :
         nops < MaxOwnerOps /\ GetPortfolio(me, me, TRUE, resps)

SpecOwner == Init /\ [][NextOwner]_vars

----------------------------------------------------------------------------
(* enrichAssetsWithPrices calls of concurrent requests (part_000).  Node   *)
(* runs one piece of JavaScript at a time, from the resumption of an await *)
(* to the next await; each action below is one such piece.  A call is      *)
(*   "idle"   not made yet,                                                *)
(*   "wait"   suspended in getQuote on the fetch of the adapter,           *)
(*   "ready"  getQuote of the current holding has settled and the loop     *)
(*            body's continuation is queued,                               *)
(*   "done"   returned.                                                    *)
(* started counts the holdings whose getQuote was called; pending is the   *)
(* record the continuation will push.                                      *)

\* An upstream request that fails: what getQuote does before its first
\* await does not depend on the answer.
NoAnswer == [st |-> "err", price |-> 0, cur |-> ""]

\* getQuote from its call to its first await: the cache read and, on a
\* miss, the adapter up to its fetch.  net = 1: the fetch went out.
getQuoteUntilAwait(v, k, c, t, type, symbol) ==
  getQuote(v, k, c, t, type, symbol, NoAnswer)

\* Mutant of getQuoteResume: the quote is stored only when the key has no
\* entry.
getQuoteResumeKeepsFirst(v, k, c, t, type, symbol, resp) ==
  LET r == Dispatch(v, k, type, symbol, resp)
      key == CacheKey(type, symbol)
  IN [ok |-> r.ok, quote |-> r.quote, err |-> r.err,
      cout |-> IF r.ok /\ key \notin DOMAIN c
                 THEN CacheSet(c, key, r.quote[1], SetTTL(v, type), t)
                 ELSE c]

\* getQuote from the answer of the fetch on: the adapter builds the quote
\* or throws, and cache.set stores a quote that was built.
getQuoteResume(v, k, c, t, type, symbol, resp) ==
  LET r == Dispatch(v, k, type, symbol, resp)
  IN [ok |-> r.ok, quote |-> r.quote, err |-> r.err,
      cout |-> IF r.ok
                 THEN CacheSet(c, CacheKey(type, symbol), r.quote[1], SetTTL(v, type), t)
                 ELSE c]

\* The upstream request of call id for its idx-th holding a, issued now.
Request(id, idx, a) ==
  [call |-> id, idx |-> idx, type |-> a.type, symbol |-> a.symbol,
   key |-> CacheKey(a.type, a.symbol), issuedAt |-> now, issuedAfter |-> Len(log)]

\* Mutant of Begin: the loop does not await getQuote, the request of the
\* following holding goes out as well.
BeginNoAwait(id, e, c) ==
  LET idx == e.started + 1
      a == e.list[idx]
      probe == getQuoteUntilAwait(variant, avKey, c, now, a.type, a.symbol)
  IN IF probe.net = 0
       THEN [e |-> [e EXCEPT !.started = idx, !.pc = "ready",
                             !.pending = Some(IF probe.ok
                                                THEN Valued(a, probe.quote[1])
                                                ELSE Failed(a, probe.err))],
             cache |-> probe.cout,
             issued |-> {}]
       ELSE [e |-> [e EXCEPT !.started = IF idx < Len(e.list) THEN idx + 1 ELSE idx,
                             !.pc = "wait"],
             cache |-> probe.cout,
             issued |-> {Request(id, idx, a)} \cup
                        (IF idx < Len(e.list)
                           THEN {Request(id, idx + 1, e.list[idx + 1])} ELSE {})]

\* The loop body up to `await getQuote(a)` for the next holding of call e,
\* on cache c: the new state of the call, the cache, and the requests issued.
Begin(id, e, c) ==
  LET idx == e.started + 1
      a == e.list[idx]
      probe == getQuoteUntilAwait(variant, avKey, c, now, a.type, a.symbol)
  IN IF probe.net = 0
       THEN [e |-> [e EXCEPT !.started = idx, !.pc = "ready",
                             !.pending = Some(IF probe.ok
                                                THEN Valued(a, probe.quote[1])
                                                ELSE Failed(a, probe.err))],
             cache |-> probe.cout,
             issued |-> {}]
       ELSE [e |-> [e EXCEPT !.started = idx, !.pc = "wait"],
             cache |-> probe.cout,
             issued |-> {Request(id, idx, a)}]

HoldingBTC == NewAsset(1, "u1", BodyA)

HoldingFOO == NewAsset(2, "u1", BodyB)

HoldingAAPL == NewAsset(3, "u1", BodyC)

\* The holdings lists the interleaved calls are given.
ConcLists ==
  { <<HoldingBTC>>, <<HoldingBTC, HoldingAAPL>>, <<HoldingFOO, HoldingBTC>> }

ConcResponses == { r \in Responses : r.st = "err" \/ r.price > 0 }

ConcTickSteps == {1, 61}

\* A request handler calls enrichAssetsWithPrices(list).
StartEnrich(id, list) ==
  /\ enrich[id].pc = "idle"
  /\ LET b == Begin(id, [IdleCall EXCEPT !.list = list], cache)
     IN /\ enrich' = [enrich EXCEPT ![id] = b.e]
        /\ cache' = b.cache
        /\ inflight' = inflight \cup b.issued
  /\ UNCHANGED <<variant, avKey, now, assets, creators, last, nops, gate, ui, log>>

\* Mutant of Respond: upstream requests go through one queue that the
\* requests of call "e1" hold up.
RespondBehindFirst(m, resp) ==
  /\ m \in inflight
  /\ \A x \in inflight : x.call = "e1" => m.call = "e1"
  /\ LET e == enrich[m.call]
         a == e.list[m.idx]
         r == getQuoteResume(variant, avKey, cache, now, m.type, m.symbol, resp)
     IN /\ cache' = r.cout
        /\ enrich' = [enrich EXCEPT ![m.call] =
                        [e EXCEPT !.pc = "ready",
                                  !.pending = Some(IF r.ok THEN Valued(a, r.quote[1])
                                                           ELSE Failed(a, r.err))]]
        /\ log' = Append(log, m @@ [answeredAt |-> now, ok |-> r.ok, quote |-> r.quote])
  /\ inflight' = inflight \ {m}
  /\ UNCHANGED <<variant, avKey, now, assets, creators, last, nops, gate, ui>>

\* The fetch of request m is answered with resp: getQuote resumes and settles.
Respond(m, resp) ==
  /\ m \in inflight
  /\ LET e == enrich[m.call]
         a == e.list[m.idx]
         r == getQuoteResume(variant, avKey, cache, now, m.type, m.symbol, resp)
     IN /\ cache' = r.cout
        /\ enrich' = [enrich EXCEPT ![m.call] =
                        [e EXCEPT !.pc = "ready",
                                  !.pending = Some(IF r.ok THEN Valued(a, r.quote[1])
                                                           ELSE Failed(a, r.err))]]
        /\ log' = Append(log, m @@ [answeredAt |-> now, ok |-> r.ok, quote |-> r.quote])
  /\ inflight' = inflight \ {m}
  /\ UNCHANGED <<variant, avKey, now, assets, creators, last, nops, gate, ui>>

\* The continuation of `await getQuote(a)`: the record is pushed and the
\* loop goes on to the next holding, or the call returns.
Continue(id) ==
  /\ enrich[id].pc = "ready"
  /\ LET e == [enrich[id] EXCEPT !.results = Append(@, enrich[id].pending[1]),
                                 !.pending = Null]
     IN IF e.started < Len(e.list)
          THEN LET b == Begin(id, e, cache)
               IN /\ enrich' = [enrich EXCEPT ![id] = b.e]
                  /\ cache' = b.cache
                  /\ inflight' = inflight \cup b.issued
          ELSE /\ enrich' = [enrich EXCEPT ![id] = [e EXCEPT !.pc = "done"]]
               /\ UNCHANGED <<cache, inflight>>
  /\ UNCHANGED <<variant, avKey, now, assets, creators, last, nops, gate, ui, log>>

\* Time passes while calls are suspended.
TickConc(d) ==
  /\ nops < MaxConcTicks
  /\ nops' = nops + 1
  /\ now' = now + d
  /\ UNCHANGED <<variant, avKey, cache, assets, creators, last, conc, gate, ui>>

\* The server of part_000.
InitTTL == Init /\ variant = "TTL"

NextConc ==
  \/ \E id \in EnrichCalls, list \in ConcLists : StartEnrich(id, list)
  \/ \E m \in inflight, resp \in ConcResponses : Respond(m, resp)
  \/ \E id \in EnrichCalls : Continue(id)
  \/ \E d \in ConcTickSteps : TickConc(d)

SpecConc == InitTTL /\ [][NextConc]_vars

\* An upstream request of call id is answered.
RespondsTo(id) ==
  \E m \in inflight, resp \in ConcResponses : m.call = id /\ Respond(m, resp)

\* The interleaved calls under the scheduling of Node: the event loop runs
\* every queued continuation, and the provider answers the requests of call
\* "e2".  Nothing is assumed of the requests of call "e1": each may stay
\* unanswered for ever.
SpecHang ==
  /\ InitTTL
  /\ [][NextConc]_vars
  /\ WF_vars(Continue("e2"))
  /\ WF_vars(RespondsTo("e2"))

----------------------------------------------------------------------------
(* The auth middleware in front of the portfolio routes.  A header is its  *)
(* scheme prefix and the rest of the string (Null: nothing follows); a     *)
(* token is its payload, whether JWT_SECRET signed it, and its expiry.     *)

Email(user) == user \o "@example.com"

\* jwt.sign({ id, email }, JWT_SECRET, { expiresIn: "7d" }) at time iat
SignToken(user, iat) ==
  [signed |-> TRUE, id |-> user, email |-> Email(user), exp |-> iat + TokenLife]

\* The same payload signed with another secret.
ForgedToken(user) == [SignToken(user, 0) EXCEPT !.signed = FALSE]

\* jwt.verify(token, JWT_SECRET) returns the payload.
Verifies(token, t) == token.signed /\ t < token.exp

\* The Authorization headers explored: none, "Bearer " alone, Bearer with a
\* good token of either user, with a token about to expire, with a forged
\* one, and a good token under the schemes "bearer " and "Basic ".
Headers ==
  { [scheme |-> "", rest |-> Null],
    [scheme |-> "Bearer ", rest |-> Null],
    [scheme |-> "Bearer ", rest |-> Some(SignToken("u1", 0))],
    [scheme |-> "Bearer ", rest |-> Some(SignToken("u2", 0))],
    [scheme |-> "Bearer ", rest |-> Some(SignToken("u1", 1 - TokenLife))],
    [scheme |-> "Bearer ", rest |-> Some(ForgedToken("u1"))],
    [scheme |-> "bearer ", rest |-> Some(SignToken("u1", 0))],
    [scheme |-> "Basic ", rest |-> Some(SignToken("u1", 0))] }

\* Mutant of auth: the payload is decoded without verifying the token.
authDecodes(header, t) ==
  LET token == IF header.scheme = "Bearer " THEN header.rest ELSE Null
  IN IF token = Null
       THEN [next |-> FALSE, status |-> 401, error |-> "No token provided", user |-> Null]
       ELSE [next |-> TRUE, status |-> 0, error |-> "",
             user |-> Some([id |-> token[1].id, email |-> token[1].email])]

\* auth(req, res, next) at time t: next is called with req.user set, or the
\* response is 401.
auth(header, t) ==
  LET token == IF header.scheme = "Bearer " THEN header.rest ELSE Null
  IN IF token = Null
       THEN [next |-> FALSE, status |-> 401, error |-> "No token provided", user |-> Null]
     ELSE IF Verifies(token[1], t)
       THEN [next |-> TRUE, status |-> 0, error |-> "",
             user |-> Some([id |-> token[1].id, email |-> token[1].email])]
     ELSE [next |-> FALSE, status |-> 401, error |-> "Invalid token", user |-> Null]

\* The middleware has called next() and the route handler has not run yet.
HandlerDue == gate.state = "next" /\ gate.at = nops

\* The protected requests explored.
ProtectedRequests ==
  { [kind |-> "add", body |-> BodyA] }
    \cup { [kind |-> "view", uid |-> u] : u \in Users }
    \cup { [kind |-> "delete", id |-> i] : i \in 1..Len(creators) }

\* A request to a protected route reaches the middleware.
AuthGate(header, route) ==
  /\ nops < MaxAuthOps
  /\ ~HandlerDue
  /\ nops' = nops + 1
  /\ LET r == auth(header, now)
     IN /\ gate' = [state |-> IF r.next THEN "next" ELSE "rejected",
                    header |-> header, route |-> route, user |-> r.user,
                    at |-> nops + 1, time |-> now, store |-> assets]
        /\ last' = IF r.next THEN last
                   ELSE [op |-> "auth", status |-> r.status,
                         body |-> [error |-> r.error], calls |-> <<>>]
  /\ UNCHANGED <<variant, avKey, cache, now, assets, creators, conc, ui>>

\* Requests pass the middleware before their handler; tokens expire.
NextAuth ==
  \/ \E header \in Headers, route \in ProtectedRequests : AuthGate(header, route)
  \/ /\ HandlerDue
     /\ gate.route.kind = "add"
     /\ AddAsset([user |-> gate.user[1].id, body |-> gate.route.body], TRUE)
  \/ /\ HandlerDue
     /\ gate.route.kind = "view"
     /\ \E resps \in [1..Len(FindByUser(assets, gate.user[1].id)) ->
                         {r \in Responses : r.st = "err"}] :
          GetPortfolio(gate.user[1].id, gate.route.uid, TRUE, resps)
  \/ /\ HandlerDue
     /\ gate.route.kind = "delete"
     /\ DeleteAsset(gate.user[1].id, gate.route.id, TRUE)
  \/ /\ ~HandlerDue
     /\ \E d \in ViewTickSteps : Tick(MaxAuthOps, d)

SpecAuth == Init /\ [][NextAuth]_vars

----------------------------------------------------------------------------
(* The symbol search of the browser page (public/main.js).  ui.timer is    *)
(* the query the pending debounce timer will search for, ui.fetches the    *)
(* searches awaiting their response, numbered in the order they were       *)
(* issued, ui.shown what the suggestion list holds and for which search,   *)
(* ui.hidden its "hidden" class.                                           *)

\* What the user may have typed: symbolInput.value.trim()
Queries == {"a", "aa", "aap"}

\* query.length < 2
TooShort(q) == q = "a"

\* How a search may end: a non-empty array, an empty array, a body that is
\* not an array (the 400 / 500 answers), or a rejected fetch.
SearchOutcomes == {"results", "empty", "errorBody", "rejected"}

\* The "input" listener.
Input(q) ==
  /\ ui' = IF TooShort(q)
             THEN [ui EXCEPT !.timer = Null, !.hidden = TRUE]
             ELSE [ui EXCEPT !.timer = Some(q)]
  /\ UNCHANGED <<variant, avKey, cache, now, assets, creators, last, nops, conc, gate>>

\* The debounce timer fires: the fetch of the search goes out.
TimerFires ==
  /\ ui.timer # Null
  /\ ui.issued < MaxSearches
  /\ ui' = [ui EXCEPT !.timer = Null,
                      !.issued = @ + 1,
                      !.fetches = @ \cup {[n |-> ui.issued + 1, query |-> ui.timer[1]]}]
  /\ UNCHANGED <<variant, avKey, cache, now, assets, creators, last, nops, conc, gate>>

\* The fetch of search f settles and the rest of the timer callback runs.
SearchResponds(f, outcome) ==
  /\ f \in ui.fetches
  /\ ui' = [ui EXCEPT
              !.fetches = @ \ {f},
              !.shown = IF outcome = "rejected" THEN @
                        ELSE Some([n |-> f.n, query |-> f.query,
                                   items |-> IF outcome = "results" THEN "results"
                                             ELSE IF outcome = "empty" THEN "No results found"
                                             ELSE "nothing"]),
              !.hidden = IF outcome \in {"results", "empty"} THEN FALSE ELSE @]
  /\ UNCHANGED <<variant, avKey, cache, now, assets, creators, last, nops, conc, gate>>

\* A click outside the list and the input.
ClickOutside ==
  /\ ui' = [ui EXCEPT !.hidden = TRUE]
  /\ UNCHANGED <<variant, avKey, cache, now, assets, creators, last, nops, conc, gate>>

NextSearch ==
  \/ \E q \in Queries : Input(q)
  \/ TimerFires
  \/ \E f \in ui.fetches, outcome \in SearchOutcomes : SearchResponds(f, outcome)
  \/ ClickOutside

SpecSearch == Init /\ [][NextSearch]_vars

----------------------------------------------------------------------------
(* Properties of enrichAssetsWithPrices and the portfolio view (Spec)      *)

HoldingFields == {"id", "userId", "symbol", "type", "quantity", "buyPrice"}

HoldingOf(r) == [f \in HoldingFields |-> r[f]]

\* The last request was a portfolio view that ran enrichAssetsWithPrices.
Enriched == last.op = "view" /\ "list" \in DOMAIN last

NullValuation(r) ==
  /\ r.currentPrice = Null
  /\ r.currentValue = Null
  /\ r.pnl = Null
  /\ r.pnlPct = Null

FullValuation(r) ==
  /\ "error" \notin DOMAIN r
  /\ r.currentPrice # Null
  /\ r.currentValue # Null
  /\ r.pnl # Null
  /\ r.pnlPct # Null

\* C1: failure isolation.  Whatever holdings fail to resolve, the call
\* returns; the record of a failed holding carries the failure message as
\* error, null currentPrice, currentValue, pnl and pnlPct and
\* invested = buyPrice * quantity; every other holding is fully valued.
C1_FailureIsolation ==
  Enriched =>
    /\ ~last.threw
    /\ Len(last.calls) = Len(last.list)
    /\ Len(last.body.assets) = Len(last.list)
    /\ \A i \in 1..Len(last.list) :
         LET r == last.body.assets[i]
             call == last.calls[i]
             a == last.list[i]
         IN /\ r.invested = a.buyPrice * a.quantity
            /\ IF call.ok
                 THEN FullValuation(r)
                 ELSE /\ "error" \in DOMAIN r
                      /\ r.error = call.err
                      /\ r.error # ""
                      /\ NullValuation(r)

\* A view in which one holding failed upstream, one failed before any
\* request and one resolved.
C1_Witness ==
  /\ Enriched
  /\ last.status = 200
  /\ \E i, j, l \in 1..Len(last.list) :
       /\ ~last.calls[i].ok /\ last.calls[i].net = 1
       /\ ~last.calls[j].ok /\ last.calls[j].net = 0
       /\ last.calls[l].ok

\* C2: the output has the length of the input and its i-th record is the
\* i-th holding with valuation attached, whatever the mix of cache hits,
\* resolutions and failures.
C2_OrderPreserving ==
  Enriched =>
    /\ Len(last.body.assets) = Len(last.list)
    /\ \A i \in 1..Len(last.list) : HoldingOf(last.body.assets[i]) = last.list[i]

\* A view of three holdings with a cache hit, a fresh resolution and a failure.
C2_Witness ==
  /\ Enriched
  /\ Len(last.list) = 3
  /\ \E i, j, l \in 1..3 :
       /\ last.calls[i].hit
       /\ last.calls[j].ok /\ ~last.calls[j].hit
       /\ ~last.calls[l].ok

\* The stored holdings of a user, newest first.
Owned(user) == FindByUser(assets, user)

\* C9: the owner's view of their own portfolio, the store read succeeding,
\* answers 200 with one record per stored holding, even when every quote
\* lookup failed.
C9_ViewAlways200 ==
  (last.op = "view" /\ last.uid = last.user /\ last.dbOk) =>
    /\ last.status = 200
    /\ Len(last.body.assets) = Len(Owned(last.user))
    /\ \A i \in 1..Len(Owned(last.user)) :
         HoldingOf(last.body.assets[i]) = Owned(last.user)[i]

\* An owner's view of two or more holdings, every lookup failing.
C9_Witness ==
  /\ Enriched
  /\ last.status = 200
  /\ Len(last.list) >= 2
  /\ \A i \in 1..Len(last.list) : ~last.calls[i].ok

\* The list [A (resolved), B (failed), C (resolved)].
ABC ==
  /\ Enriched
  /\ last.status = 200
  /\ Len(last.list) = 3
  /\ last.calls[1].ok
  /\ ~last.calls[2].ok
  /\ last.calls[3].ok

ABCRecords ==
  /\ Len(last.body.assets) = 3
  /\ FullValuation(last.body.assets[1])
  /\ "error" \in DOMAIN last.body.assets[2]
  /\ NullValuation(last.body.assets[2])
  /\ FullValuation(last.body.assets[3])

\* C10 as stated: for [A, B, C] with B unresolvable, the output has length 3,
\* B carries an error and null valuation, A and C full valuation, and the
\* summary (totalInvested, totalCurrentValue, netPnL, netPnLPct) aggregates
\* only the values of A and C.
C10_SummaryOnlyAC ==
  ABC =>
    LET r == last.body.assets
        inv == r[1].invested + r[3].invested
        cv == r[1].currentValue[1] + r[3].currentValue[1]
    IN /\ ABCRecords
       /\ last.body.summary = [totalInvested |-> inv, totalCurrentValue |-> cv,
                               netPnL |-> cv - inv, netPnLPct |-> Pct(cv - inv, inv)]

\* C10 amended: totalCurrentValue sums the currentValue of A and C only,
\* totalInvested sums invested over A, B and C (B's buy cost included), and
\* netPnL, netPnLPct derive from these two totals.
C10_SummaryInvestedAll ==
  ABC =>
    LET r == last.body.assets
        inv == r[1].invested + r[2].invested + r[3].invested
        cv == r[1].currentValue[1] + r[3].currentValue[1]
    IN /\ ABCRecords
       /\ last.body.summary = [totalInvested |-> inv, totalCurrentValue |-> cv,
                               netPnL |-> cv - inv, netPnLPct |-> Pct(cv - inv, inv)]

\* [A, B, C] with B bought at a positive cost.
C10_Witness == ABC /\ last.body.assets[2].invested > 0

\* C11: for every holding whose quote resolves, currentPrice is the price of
\* the quote, currentValue = price * quantity, invested = buyPrice * quantity,
\* pnl = currentValue - invested, and pnlPct is the number pnl / invested * 100
\* when invested > 0.
C11_ValuationArithmetic ==
  Enriched =>
    \A i \in 1..Len(last.list) :
      last.calls[i].ok =>
        LET r == last.body.assets[i]
            a == last.list[i]
            price == last.calls[i].quote[1].price
        IN /\ r.currentPrice = Some(price)
           /\ r.currentValue = Some(price * a.quantity)
           /\ r.invested = a.buyPrice * a.quantity
           /\ r.pnl = Some(price * a.quantity - a.buyPrice * a.quantity)
           /\ r.invested > 0 =>
                /\ r.pnlPct # Null
                /\ r.pnlPct[1][2] > 0
                /\ r.pnlPct[1][1] * r.invested = r.pnl[1] * 100 * r.pnlPct[1][2]

\* The example: quantity 2 bought at 20000 and quoted at 30000 is worth
\* 60000 for 40000 invested, a gain of 20000, 50 percent.
C11_Witness ==
  /\ Enriched
  /\ \E i \in 1..Len(last.list) :
       /\ last.list[i].quantity = 2
       /\ last.list[i].buyPrice = 20000
       /\ last.calls[i].ok
       /\ last.calls[i].quote[1].price = 30000
       /\ last.body.assets[i].currentValue = Some(60000)
       /\ last.body.assets[i].invested = 40000
       /\ last.body.assets[i].pnl = Some(20000)
       /\ last.body.assets[i].pnlPct = Some(<<50, 1>>)

\* C12 as stated: every record of the enriched output whose invested is 0
\* has pnlPct = 0.
C12_ZeroInvestedAll ==
  Enriched =>
    \A i \in 1..Len(last.body.assets) :
      last.body.assets[i].invested = 0 => last.body.assets[i].pnlPct = Some(<<0, 1>>)

\* C12 amended: every record of a holding whose quote resolved and whose
\* invested is 0 has pnlPct = 0, whatever its pnl; the record of a holding
\* that failed has a null pnlPct, also when its invested is 0.
C12_ZeroInvestedValued ==
  Enriched =>
    \A i \in 1..Len(last.body.assets) :
      last.body.assets[i].invested = 0 =>
        last.body.assets[i].pnlPct =
          (IF last.calls[i].ok THEN Some(<<0, 1>>) ELSE Null)

\* A holding bought at price 0 that resolved, with a gain.
C12_Witness ==
  /\ Enriched
  /\ \E i \in 1..Len(last.body.assets) :
       /\ last.body.assets[i].invested = 0
       /\ last.calls[i].ok
       /\ last.body.assets[i].pnl # Null
       /\ last.body.assets[i].pnl[1] > 0

\* The sum of invested over records i..Len(rs).
RECURSIVE SumInvested(_, _)
SumInvested(rs, i) ==
  IF i > Len(rs) THEN 0 ELSE rs[i].invested + SumInvested(rs, i + 1)

\* The sum of currentValue over records i..Len(rs), a null one counting 0.
RECURSIVE SumCurrentValue(_, _)
SumCurrentValue(rs, i) ==
  IF i > Len(rs) THEN 0
  ELSE (IF rs[i].currentValue = Null THEN 0 ELSE rs[i].currentValue[1])
         + SumCurrentValue(rs, i + 1)

\* C20: in the portfolio view, totalInvested is the sum of invested over all
\* enriched holdings, failed ones included, totalCurrentValue the sum of
\* currentValue with null counted as 0, netPnL their difference, and netPnLPct
\* the number netPnL / totalInvested * 100 when totalInvested > 0, else 0.
C20_SummaryAggregation ==
  Enriched =>
    LET s == last.body.summary
        rs == last.body.assets
    IN /\ s.totalInvested = SumInvested(rs, 1)
       /\ s.totalCurrentValue = SumCurrentValue(rs, 1)
       /\ s.netPnL = s.totalCurrentValue - s.totalInvested
       /\ IF s.totalInvested > 0
            THEN /\ s.netPnLPct[2] > 0
                 /\ s.netPnLPct[1] * s.totalInvested = s.netPnL * 100 * s.netPnLPct[2]
            ELSE s.netPnLPct = <<0, 1>>

\* A view in which a holding bought at a positive cost failed, another
\* resolved, and the portfolio shows a gain.
C20_Witness ==
  /\ Enriched
  /\ \E i, j \in 1..Len(last.body.assets) :
       /\ ~last.calls[i].ok /\ last.body.assets[i].invested > 0
       /\ last.calls[j].ok
  /\ last.body.summary.netPnL > 0
  /\ last.body.summary.netPnLPct[1] > 0

----------------------------------------------------------------------------
(* Properties of getQuote and the cache (SpecQuote)                        *)

\* The getQuote call of the last quote request.
QuoteCall == last.calls[1]

\* The entries of a cache that a read at time t would still serve.
Live(c, t) == [k \in {x \in DOMAIN c : c[x].t >= t} |-> c[k]]

\* C3: cache idempotence.  A getQuote that starts while the entry of its key
\* has not expired returns the cached quote, issues no upstream call and
\* leaves the cache alone; one that starts after the expiry (or with no
\* entry) is a miss, and every resolution that succeeds on a miss issued a
\* new upstream call.
C3_CacheIdempotence ==
  last.op = "quote" =>
    LET call == QuoteCall
    IN IF call.before # Null /\ call.at <= call.before[1].t
         THEN /\ call.hit
              /\ call.ok
              /\ call.quote = Some(call.before[1].v)
              /\ call.net = 0
              /\ call.cout = call.cin
         ELSE /\ ~call.hit
              /\ call.ok => call.net = 1
              /\ call.net = 0 =>
                   /\ ~call.ok
                   /\ call.err \in {"Unsupported crypto symbol: " \o call.symbol,
                                    "Unsupported asset type: " \o call.type,
                                    "Missing ALPHA_VANTAGE_KEY"}

\* A getQuote served from the cache some time after the entry was written.
C3_Witness ==
  /\ last.op = "quote"
  /\ QuoteCall.hit
  /\ QuoteCall.at > 0

\* C4: a failed resolution is never cached.  A hit invokes no adapter; the
\* cache changes only when the adapter returned a quote; after a failure the
\* cache serves what it served before, and nothing for the key of the call.
C4_FailureNotCached ==
  last.op = "quote" =>
    LET call == QuoteCall
    IN /\ call.hit => (call.adapter = "none" /\ call.net = 0)
       /\ Live(call.cout, call.at) # Live(call.cin, call.at) => (~call.hit /\ call.ok)
       /\ ~call.ok =>
            /\ Live(call.cout, call.at) = Live(call.cin, call.at)
            /\ CacheGet(call.cout, call.key, call.at) = Null
       /\ cache = call.cout

\* An upstream failure for a key that had an (expired) entry.
C4_Witness ==
  /\ last.op = "quote"
  /\ ~QuoteCall.ok
  /\ QuoteCall.net = 1
  /\ QuoteCall.before # Null

\* C14: on GET /quote/:type/:symbol a resolution that fails is answered with
\* a non-2xx status and a body carrying the failure's message and no quote; a
\* resolution that succeeds is answered 200 with the quote itself.
C14_QuoteEndpointSurfacesFailure ==
  last.op = "quote" =>
    IF QuoteCall.ok
      THEN /\ last.status = 200
           /\ last.body = [quote |-> QuoteCall.quote[1]]
      ELSE /\ last.status \notin 200..299
           /\ last.body = [error |-> QuoteCall.err]
           /\ QuoteCall.err # ""

\* A quote request answered 500 with the provider's message.
C14_Witness ==
  /\ last.op = "quote"
  /\ ~QuoteCall.ok
  /\ last.status = 500
  /\ last.body = [error |-> "CoinGecko error 500"]

\* The equity/fund adapter of the version under study.
EquityAdapter == IF variant = "AV" THEN "Alpha Vantage" ELSE "Yahoo Finance"

C5_PerClassTTL ==
  (last.op = "quote" /\ ~QuoteCall.hit /\ QuoteCall.ok /\ QuoteCall.type \in HoldingTypes) =>
    /\ QuoteCall.key \in DOMAIN cache
    /\ cache[QuoteCall.key].t =
         QuoteCall.at + (IF QuoteCall.type = "crypto" THEN CRYPTO_TTL ELSE STOCK_TTL)

\* C6 as stated: a getQuote whose type is not a recognized class fails with
\* the unsupported-asset-type error, invokes no adapter, issues no request
\* and leaves the cache unchanged.
C6_UnsupportedType ==
  (last.op = "quote" /\ QuoteCall.type \notin HoldingTypes) =>
    /\ ~QuoteCall.ok
    /\ QuoteCall.err = "Unsupported asset type: " \o QuoteCall.type
    /\ QuoteCall.adapter = "none"
    /\ QuoteCall.net = 0
    /\ Live(QuoteCall.cout, QuoteCall.at) = Live(QuoteCall.cin, QuoteCall.at)

\* C7 as stated: every crypto getQuote whose uppercased symbol is not a key
\* of CRYPTO_MAP fails with the unsupported-symbol error and issues no
\* outbound request, on every attempt.
C7_UnmappedCryptoFails ==
  (/\ last.op = "quote"
   /\ QuoteCall.type = "crypto"
   /\ ToUpperCase(QuoteCall.symbol) \notin DOMAIN CRYPTO_MAP) =>
    /\ ~QuoteCall.ok
    /\ QuoteCall.err = "Unsupported crypto symbol: " \o QuoteCall.symbol
    /\ QuoteCall.net = 0

\* C8 as stated: every quote getQuote returns and every quote in the cache
\* has price > 0.
C8_PricePositive ==
  /\ (last.op = "quote" /\ QuoteCall.ok) => QuoteCall.quote[1].price > 0
  /\ \A k \in DOMAIN cache : cache[k].v.price > 0

----------------------------------------------------------------------------
(* The missing provider credential (SpecConfig)                            *)

MissingKey == "Missing ALPHA_VANTAGE_KEY"

\* C16: with ALPHA_VANTAGE_KEY absent, every call of the equity adapter fails
\* with the missing-key error before any request goes out; in a portfolio
\* view the holding gets an error record while the view answers 200 and a
\* crypto holding whose quote resolves is fully valued; on the quote endpoint
\* the request fails with that error.
C16_MissingKey ==
  (variant = "AV" /\ ~avKey) =>
    /\ \A i \in 1..Len(last.calls) :
         last.calls[i].adapter = "Alpha Vantage" =>
           /\ ~last.calls[i].ok
           /\ last.calls[i].net = 0
           /\ last.calls[i].err = MissingKey
    /\ Enriched =>
         /\ last.status = 200
         /\ Len(last.body.assets) = Len(last.list)
         /\ \A i \in 1..Len(last.list) :
              /\ last.list[i].type # "crypto" =>
                   /\ last.calls[i].adapter = "Alpha Vantage"
                   /\ "error" \in DOMAIN last.body.assets[i]
                   /\ last.body.assets[i].error = MissingKey
                   /\ NullValuation(last.body.assets[i])
              /\ (last.list[i].type = "crypto" /\ last.calls[i].ok) =>
                   FullValuation(last.body.assets[i])
    /\ (last.op = "quote" /\ QuoteCall.type # "crypto") =>
         /\ QuoteCall.adapter = "Alpha Vantage"
         /\ last.status = 500
         /\ last.body = [error |-> MissingKey]

\* Without the key, a view of a stock holding and a crypto holding: the
\* stock failed without a request, the crypto holding got its price.
C16_Witness ==
  /\ variant = "AV" /\ ~avKey
  /\ Enriched
  /\ last.status = 200
  /\ \E i, j \in 1..Len(last.list) :
       /\ last.list[i].type = "stock"
       /\ last.body.assets[i].error = MissingKey
       /\ last.calls[i].net = 0
       /\ last.list[j].type = "crypto"
       /\ last.calls[j].net = 1
       /\ FullValuation(last.body.assets[j])

----------------------------------------------------------------------------
(* Owner scoping of the holdings store (SpecOwner)                         *)

\* The holdings of a store that user does not own.
NotOwnedBy(store, user) == SelectSeq(store, LAMBDA a : a.userId # user)

\* The last request was an edit or a delete.
Modifying == last.op \in {"edit", "delete"}

\* The holding an edit or delete named, as it was stored before the request.
Target == { a \in { last.before[i] : i \in 1..Len(last.before) } : a.id = last.id }

\* C15: every stored holding is owned by the user whose request created it;
\* an edit or delete by user U leaves the holdings of other users as they
\* were, answers 404 and changes nothing when the holding it names is not
\* U's, and succeeds only on a holding of U; a view of another user's
\* portfolio answers 403 with no body, and a view shows only the viewer's
\* holdings.
C15_OwnerScoping ==
  /\ \A i \in 1..Len(assets) :
       /\ assets[i].id \in 1..Len(creators)
       /\ assets[i].userId = creators[assets[i].id]
       /\ \A j \in 1..Len(assets) : assets[j].id = assets[i].id => j = i
  /\ Modifying =>
       /\ NotOwnedBy(assets, last.user) = NotOwnedBy(last.before, last.user)
       /\ last.status = 200 =>
            \E a \in Target : a.userId = last.user
       /\ (last.status \notin {400, 500} /\ \A a \in Target : a.userId # last.user) =>
            /\ last.status = 404
            /\ assets = last.before
  /\ (last.op = "view" /\ last.uid # last.user) =>
       /\ last.status = 403
       /\ "body" \notin DOMAIN last
       /\ last.calls = <<>>
  /\ (last.op = "view" /\ "body" \in DOMAIN last) =>
       \A i \in 1..Len(last.body.assets) : last.body.assets[i].userId = last.user

\* A user's delete of a holding another user owns, answered 404, in a store
\* where that other user has edited the holding before.
C15_Witness ==
  /\ last.op = "delete"
  /\ last.status = 404
  /\ \E i \in 1..Len(assets) :
       /\ assets[i].id = last.id
       /\ assets[i].userId # last.user
       /\ assets[i].quantity = 5

----------------------------------------------------------------------------
(* Interleaved enrichment calls (SpecConc)                                 *)

\* The upstream requests of call id that await their answer.
InFlightOf(id) == { m \in inflight : m.call = id }

\* C17: within one enrichAssetsWithPrices call the resolution of a holding
\* starts only when the records of all holdings before it have been
\* appended, so the call has at most one upstream request in flight, the one
\* of the holding it is suspended on.
C17_Sequential ==
  \A id \in EnrichCalls :
    LET e == enrich[id]
    IN /\ e.started <= Len(e.results) + 1
       /\ Cardinality(InFlightOf(id)) <= 1
       /\ \A m \in InFlightOf(id) : m.idx = Len(e.results) + 1 /\ e.pc = "wait"
       /\ e.pc = "wait" => Cardinality(InFlightOf(id)) = 1
       /\ e.pc = "done" => Len(e.results) = Len(e.list)

\* Both calls suspended on an upstream request, each for its second holding.
C17_Witness ==
  \A id \in EnrichCalls :
    /\ enrich[id].pc = "wait"
    /\ Len(enrich[id].results) = 1
    /\ Cardinality(InFlightOf(id)) = 1

\* The upstream requests answered with a quote.
Resolved == { p \in 1..Len(log) : log[p].ok }

\* The time to live getQuote gives the entry of request m.
TTLOf(m) == SetTTL(variant, m.type)

\* C18 as stated: the resolutions of one (type, symbol) that start within
\* one TTL window issue at most one upstream request in total, also when
\* one starts while the request of another is in flight: two upstream
\* requests of one key that both bring a quote are issued more than the TTL
\* apart.
C18_OneCallPerWindow ==
  \A p, q \in Resolved :
    (p # q /\ log[p].key = log[q].key) =>
      Abs(log[p].issuedAt - log[q].issuedAt) > TTLOf(log[p])

\* C18 amended: a resolution of (type, symbol) that starts after a
\* resolution of the same key has stored its quote issues an upstream request
\* only once that entry has expired; resolutions whose requests overlap in
\* flight each issue their own.
C18_OneCallAfterWrite ==
  \A p \in Resolved :
    /\ \A q \in 1..Len(log) :
         (log[q].key = log[p].key /\ log[q].issuedAfter >= p) =>
           log[q].issuedAt > log[p].answeredAt + TTLOf(log[p])
    /\ \A m \in inflight :
         (m.key = log[p].key /\ m.issuedAfter >= p) =>
           m.issuedAt > log[p].answeredAt + TTLOf(log[p])

\* One call resolved BTC upstream, and later, within the TTL, the other
\* call got BTC from the cache without a request.
C18_Witness ==
  /\ Len(log) = 1
  /\ log[1].ok
  /\ inflight = {}
  /\ now > log[1].answeredAt
  /\ now <= log[1].answeredAt + TTLOf(log[1])
  /\ \E id \in EnrichCalls :
       /\ id # log[1].call
       /\ enrich[id].pc = "done"
       /\ \E i \in 1..Len(enrich[id].list) :
            /\ CacheKey(enrich[id].list[i].type, enrich[id].list[i].symbol) = log[1].key
            /\ FullValuation(enrich[id].results[i])

\* The last upstream request answered with a quote for key k, if any.
LastWrite(k) ==
  LET W == { p \in Resolved : log[p].key = k }
  IN IF W = {} THEN Null ELSE Some(log[CHOOSE p \in W : \A q \in W : q <= p])

\* C19: at every moment the entry of every cache key is the quote, with the
\* expiry, that the resolution of that key which completed last has written,
\* whatever other keys were written since; and the last quote written for a
\* key is in the cache as long as it has not expired.
C19_LastWriteWins ==
  /\ \A k \in DOMAIN cache :
       /\ LastWrite(k) # Null
       /\ cache[k] = [v |-> LastWrite(k)[1].quote[1],
                      t |-> LastWrite(k)[1].answeredAt + TTLOf(LastWrite(k)[1])]
  /\ \A p \in Resolved :
       LET w == LastWrite(log[p].key)[1]
       IN w.answeredAt + TTLOf(w) >= now => log[p].key \in DOMAIN cache

\* Two requests for one key were in flight together and answered with
\* different quotes, a quote for another key was stored after them, and the
\* cache holds the quote of the request answered second.
C19_Witness ==
  /\ Len(log) >= 3
  /\ log[1].ok /\ log[2].ok /\ log[3].ok
  /\ log[1].key = log[2].key
  /\ log[3].key # log[1].key
  /\ log[2].issuedAfter = 0
  /\ log[1].quote # log[2].quote
  /\ log[1].key \in DOMAIN cache
  /\ cache[log[1].key].v = log[2].quote[1]

----------------------------------------------------------------------------
(* Soundness of the cache key (SpecQuote)                                  *)

\* C22 as stated: a cache hit for (type, symbol) returns a quote produced by
\* the adapter the dispatch rule selects for that type; a type-crypto
\* resolution never returns a quote whose source is the equity/fund provider.
C22_CacheKeySound ==
  (last.op = "quote" /\ QuoteCall.ok) =>
    /\ QuoteCall.hit =>
         QuoteCall.quote[1].source =
           (IF QuoteCall.type = "crypto" THEN "CoinGecko" ELSE EquityAdapter)
    /\ QuoteCall.type = "crypto" => QuoteCall.quote[1].source = "CoinGecko"

----------------------------------------------------------------------------
(* The auth gate (SpecAuth)                                                *)

\* The header of the last request is "Bearer <token>" and the token
\* verified when the middleware ran.
GoodHeader ==
  /\ gate.header.scheme = "Bearer "
  /\ gate.header.rest # Null
  /\ Verifies(gate.header.rest[1], gate.time)

\* C23: the middleware calls next, and the handler runs, only for a header
\* "Bearer <token>" whose token verifies, and req.user is then the id and
\* email of the token; for every other header the response is 401, no
\* handler runs and the holdings are neither read nor changed.
C23_AuthGate ==
  /\ gate.state = "next" =>
       /\ GoodHeader
       /\ gate.user = Some([id |-> gate.header.rest[1].id,
                            email |-> gate.header.rest[1].email])
       /\ HandlerDue => assets = gate.store
       /\ ~HandlerDue => (last.op = gate.route.kind /\ last.user = gate.user[1].id)
  /\ gate.state = "rejected" =>
       /\ ~GoodHeader
       /\ last.op = "auth"
       /\ last.status = 401
       /\ last.calls = <<>>
       /\ assets = gate.store
  /\ last.op \in {"add", "view", "delete"} => gate.state = "next"

\* A delete of a stored holding with its owner's token, after the token has
\* expired: rejected, the holding still stored.
C23_Witness ==
  /\ gate.state = "rejected"
  /\ gate.header.scheme = "Bearer "
  /\ gate.header.rest # Null
  /\ gate.header.rest[1].signed
  /\ gate.route.kind = "delete"
  /\ \E i \in 1..Len(assets) :
       assets[i].id = gate.route.id /\ assets[i].userId = gate.header.rest[1].id

----------------------------------------------------------------------------
(* The symbol search of the page (SpecSearch)                              *)

\* C24 as stated: the suggestion list shown is the response to the most
\* recently issued search among those answered, and a response to an older
\* query never overwrites the suggestions of a newer one: the search whose
\* response the list holds never becomes an older one.
C24_NewestSuggestions ==
  [][(ui.shown # Null /\ ui'.shown # Null) => ui'.shown[1].n >= ui.shown[1].n]_vars

----------------------------------------------------------------------------
(* A hung upstream call (SpecHang)                                         *)

\* C21: whatever becomes of the upstream requests of the other call, a hung
\* one included, an enrichAssetsWithPrices call whose own upstream requests
\* are answered returns: once called, call "e2" eventually is done.
C21_HungCallStallsOnlyItself ==
  (enrich["e2"].pc \in {"wait", "ready"}) ~> (enrich["e2"].pc = "done")

\* Call "e1" is still suspended on its first request, issued before any
\* answer came in, while call "e2" has returned two records, one of them
\* resolved upstream for the key "e1" waits for.
C21_Witness ==
  /\ enrich["e1"].pc = "wait"
  /\ enrich["e1"].results = <<>>
  /\ enrich["e2"].pc = "done"
  /\ Len(enrich["e2"].results) = 2
  /\ \E m \in inflight :
       /\ m.call = "e1"
       /\ m.issuedAfter = 0
       /\ \E p \in 1..Len(log) : log[p].call = "e2" /\ log[p].key = m.key /\ log[p].ok

====
